---- MODULE Spec2Model ----
(***************************************************************************)
(* A model of the crawl engine of WeCrawler (package webcrawler):          *)
(* CreateNewCrawler, IsProductURL, ParseLinks, resolveURL, isSameDomain,   *)
(* CrawlDomain and RunCrawler.                                             *)
(*                                                                         *)
(* A string is a sequence of tokens.  A token is either one of the         *)
(* separator characters "/", "?", "#", a scheme with its colon            *)
(* ("https:"), an invalid control byte (Ctl), or a maximal run of other    *)
(* characters ("a.com", "product", "1").  Two word tokens are never        *)
(* adjacent, so substring tests on the characters are substring tests on   *)
(* the tokens.                                                             *)
(***************************************************************************)
EXTENDS Naturals, Sequences, FiniteSets, TLC

\* ------------------------------------------------------------------ strings

Slash == "/"
QMark == "?"
Hash == "#"
Ctl == "<DEL>"
SchemeToks == {"https:", "http:", "mailto:"}
EmptyStr == << >>

Range(s) == {s[i] : i \in 1..Len(s)}

\* strings.Index for a one-character needle: the first position, 0 if none.
IndexOf(s, c) ==
  IF \E i \in 1..Len(s) : s[i] = c
    THEN CHOOSE i \in 1..Len(s) : s[i] = c /\ \A j \in 1..(i - 1) : s[j] # c
    ELSE 0

\* strings.LastIndex for a one-character needle: the last position, 0 if none.
LastIndexOf(s, c) ==
  IF \E i \in 1..Len(s) : s[i] = c
    THEN CHOOSE i \in 1..Len(s) : s[i] = c /\ \A j \in (i + 1)..Len(s) : s[j] # c
    ELSE 0

Before(s, i) == SubSeq(s, 1, i - 1)
After(s, i) == SubSeq(s, i + 1, Len(s))

\* ------------------------------------------------------------------ net/url

NoURL == [ok |-> FALSE, Scheme |-> "", Opaque |-> EmptyStr, Host |-> "",
          Path |-> EmptyStr, RawQuery |-> EmptyStr, Fragment |-> EmptyStr]

\* strings.Cut(s, c): the text before and after the first c.
CutAt(s, i) ==
  IF i = 0 THEN [before |-> s, after |-> EmptyStr, found |-> FALSE]
  ELSE [before |-> Before(s, i), after |-> After(s, i), found |-> TRUE]

Cut(s, c) == CutAt(s, IndexOf(s, c))

\* url.Parse, the hierarchical part after "//": the authority runs up to the
\* next "/".
ParseAuthority(scheme, r3, query, frag) ==
  IF r3 # EmptyStr /\ r3[1] # Slash
    THEN [ok |-> TRUE, Scheme |-> scheme, Opaque |-> EmptyStr, Host |-> r3[1],
          Path |-> Tail(r3), RawQuery |-> query, Fragment |-> frag]
    ELSE [ok |-> TRUE, Scheme |-> scheme, Opaque |-> EmptyStr, Host |-> "",
          Path |-> r3, RawQuery |-> query, Fragment |-> frag]

\* url.Parse after the scheme and the query are cut off: a scheme followed by
\* no "/" makes the URL opaque; "//" starts an authority.
ParseHier(scheme, r2, query, frag) ==
  IF scheme # "" /\ ~(r2 # EmptyStr /\ r2[1] = Slash)
    THEN [ok |-> TRUE, Scheme |-> scheme, Opaque |-> r2, Host |-> "",
          Path |-> EmptyStr, RawQuery |-> query, Fragment |-> frag]
  ELSE IF Len(r2) >= 2 /\ r2[1] = Slash /\ r2[2] = Slash
    THEN ParseAuthority(scheme, SubSeq(r2, 3, Len(r2)), query, frag)
  ELSE [ok |-> TRUE, Scheme |-> scheme, Opaque |-> EmptyStr, Host |-> "",
        Path |-> r2, RawQuery |-> query, Fragment |-> frag]

ParseQuery(scheme, c, frag) == ParseHier(scheme, c.before, c.after, frag)

\* url.Parse after the fragment is cut off: the scheme, then the query.
ParseScheme(u, frag) ==
  IF u # EmptyStr /\ u[1] \in SchemeToks
    THEN ParseQuery(u[1], Cut(Tail(u), QMark), frag)
    ELSE ParseQuery("", Cut(u, QMark), frag)

ParseFragment(c) == ParseScheme(c.before, c.after)

\* url.Parse, as resolveURL and isSameDomain use it: the fragment is cut at
\* the first "#", a control byte is an error, then the scheme, the query (cut
\* at the first "?"), and after "//" the authority up to the next "/".
ParseURL(s) ==
  IF Ctl \in Range(s) THEN NoURL ELSE ParseFragment(Cut(s, Hash))

\* (*URL).String: the authority, written when there is a scheme or a host.
AuthorityString(u) ==
  IF (u.Scheme # "" \/ u.Host # "") /\ (u.Host # "" \/ u.Path # EmptyStr)
    THEN <<Slash, Slash>> \o (IF u.Host = "" THEN EmptyStr ELSE <<u.Host>>)
    ELSE EmptyStr

\* (*URL).String: the path, after a "/" when it is relative and there is a host.
PathString(u) ==
  IF u.Path # EmptyStr /\ u.Path[1] # Slash /\ u.Host # ""
    THEN <<Slash>> \o u.Path ELSE u.Path

\* (*URL).String
URLString(u) ==
  (IF u.Scheme = "" THEN EmptyStr ELSE <<u.Scheme>>)
  \o (IF u.Opaque # EmptyStr THEN u.Opaque ELSE AuthorityString(u) \o PathString(u))
  \o (IF u.RawQuery = EmptyStr THEN EmptyStr ELSE <<QMark>> \o u.RawQuery)
  \o (IF u.Fragment = EmptyStr THEN EmptyStr ELSE <<Hash>> \o u.Fragment)

\* strings.Cut(s, "/") repeated: the elements between the slashes.
RECURSIVE CutSlash(_)
CutSlashAt(s, i) ==
  IF i = 0 THEN <<s>> ELSE <<Before(s, i)>> \o CutSlash(After(s, i))

CutSlash(s) == CutSlashAt(s, IndexOf(s, Slash))

\* resolvePath, the ".." case: the last element written is dropped.
DropLast(str, index) ==
  IF index = 0 THEN <<Slash>> ELSE <<Slash>> \o Before(str, index)

\* The loop of resolvePath over the elements: "." is skipped, ".." drops the
\* last element written, anything else is written after a "/".
RECURSIVE RemoveDots(_, _, _)
RemoveDots(elems, dst, first) ==
  IF elems = << >> THEN dst
  ELSE IF Head(elems) = <<".">> THEN RemoveDots(Tail(elems), dst, FALSE)
  ELSE IF Head(elems) = <<"..">>
    THEN RemoveDots(Tail(elems), DropLast(Tail(dst), LastIndexOf(Tail(dst), Slash)),
                    first \/ LastIndexOf(Tail(dst), Slash) = 0)
  ELSE RemoveDots(Tail(elems),
                  dst \o (IF first THEN EmptyStr ELSE <<Slash>>) \o Head(elems),
                  FALSE)

\* resolvePath: the end, a "/" after a final "." or "..", and a doubled
\* leading "/" made single.
FinishPath(last, dst) ==
  IF last = <<".">> \/ last = <<"..">>
    THEN (IF Len(dst) > 1 /\ dst[2] = Slash THEN Tail(dst) ELSE dst) \o <<Slash>>
  ELSE IF Len(dst) > 1 /\ dst[2] = Slash THEN Tail(dst)
  ELSE dst

CleanPath(elems) == FinishPath(elems[Len(elems)], RemoveDots(elems, <<Slash>>, TRUE))

\* resolvePath: the reference joined to the base.
JoinPath(base, ref) ==
  IF ref = EmptyStr THEN base
  ELSE IF ref[1] # Slash THEN SubSeq(base, 1, LastIndexOf(base, Slash)) \o ref
  ELSE ref

CleanFull(full) == IF full = EmptyStr THEN EmptyStr ELSE CleanPath(CutSlash(full))

\* resolvePath(base, ref)
ResolvePath(base, ref) == CleanFull(JoinPath(base, ref))

\* (*URL).ResolveReference, a reference with neither scheme nor host nor
\* opaque part.
ResolveRelative(u, ref, bare) ==
  [ok |-> TRUE, Scheme |-> u.Scheme, Opaque |-> EmptyStr, Host |-> u.Host,
   Path |-> ResolvePath(u.Path, ref.Path),
   RawQuery |-> IF bare THEN u.RawQuery ELSE ref.RawQuery,
   Fragment |-> IF bare /\ ref.Fragment = EmptyStr THEN u.Fragment ELSE ref.Fragment]

\* (*URL).ResolveReference
ResolveReference(u, ref) ==
  IF ref.Scheme # ""
    THEN [ref EXCEPT !.Path = ResolvePath(ref.Path, EmptyStr)]
  ELSE IF ref.Host # ""
    THEN [ref EXCEPT !.Scheme = u.Scheme, !.Path = ResolvePath(ref.Path, EmptyStr)]
  ELSE ResolveRelative(u, ref, ref.Path = EmptyStr /\ ref.RawQuery = EmptyStr)

ResolveParsed(parsedBase, parsedHref) ==
  IF ~parsedBase.ok THEN EmptyStr
  ELSE IF ~parsedHref.ok THEN EmptyStr
  ELSE URLString(ResolveReference(parsedBase, parsedHref))

\* resolveURL: the empty string when either URL does not parse.
resolveURL(baseURL, href) == ResolveParsed(ParseURL(baseURL), ParseURL(href))

\* The comparison isSameDomain returns.
HostsEqual(a, b) == a = b

SameParsed(baseDomain, hrefDomain) ==
  IF ~baseDomain.ok THEN FALSE
  ELSE IF ~hrefDomain.ok THEN FALSE
  ELSE HostsEqual(baseDomain.Host, hrefDomain.Host)

\* isSameDomain: false when either URL does not parse, else the hosts compared.
isSameDomain(baseURL, href) == SameParsed(ParseURL(baseURL), ParseURL(href))

\* ------------------------------------------------------------------ crawler

Markers == {"product", "item", "p", "dp"}

\* regexp `/product/|/item/|/p/|/dp/` matched anywhere in the string.
RegexMatch(s) ==
  \E i \in 1..Len(s) :
    i + 2 <= Len(s) /\ s[i] = Slash /\ s[i + 1] \in Markers /\ s[i + 2] = Slash

\* A product link taken for an ordinary one.
NoProductURL(link) == FALSE

\* Crawler.IsProductURL
IsProductURL(link) == RegexMatch(link)

\* Every resolved anchor kept, whatever its host.
KeepAll(baseURL, absoluteURL) == TRUE

\* The body of the Each callback of ParseLinks: whether the resolved anchor is
\* appended to links.
KeepLink(baseURL, absoluteURL) == isSameDomain(baseURL, absoluteURL)

\* links = append(links, absoluteURL), when KeepLink says so.
AppendKept(baseURL, absoluteURL, links) ==
  IF KeepLink(baseURL, absoluteURL) THEN Append(links, absoluteURL) ELSE links

\* doc.Find("a[href]").Each(...): the hrefs in document order, each resolved
\* against baseURL and appended when KeepLink says so.
RECURSIVE EachAnchor(_, _, _)
EachAnchor(anchors, baseURL, links) ==
  IF anchors = << >> THEN links
  ELSE EachAnchor(Tail(anchors), baseURL,
                  AppendKept(baseURL, resolveURL(baseURL, Head(anchors)), links))

\* A document is the list of the hrefs of its a[href] elements, and whether
\* goquery can read it at all.
Doc(anchors) == [parses |-> TRUE, anchors |-> anchors]
Garbage == [parses |-> FALSE, anchors |-> << >>]

\* Crawler.ParseLinks: (links, err)
ParseLinks(html, baseURL) ==
  IF ~html.parses THEN [links |-> << >>, err |-> TRUE]
  ELSE [links |-> EachAnchor(html.anchors, baseURL, << >>), err |-> FALSE]

\* "https://" + domain
BaseURL(domain) == <<"https:", Slash, Slash, domain>>

\* An absolute URL of `domain` with the given path, and an href given by path.
Page(domain, path) == BaseURL(domain) \o path
P1(a) == <<Slash, a>>
P2(a, b) == <<Slash, a, Slash, b>>

\* ------------------------------------------------------------------ the web

\* Bounds of the model.
NumDomains == 2
MaxConcurrency == 2
MaxDown == 1

AllDomains == <<"a.com", "b.com", "c.com", "d.com", "e.com">>
ConfiguredDomains == SubSeq(AllDomains, 1, NumDomains)

\* The sites crawled by the run of several domains.  a.com: the root links to
\* A and B, A links to C, with a cycle back to the root, a self-link, a
\* repeated product link, a cross-host link, an href that does not parse and a
\* link whose only marker is in its query.  C is not HTML.
SiteA ==
  LET d == "a.com"
  IN (BaseURL(d) :> Doc(<<P1("A"), P1("B"), P2("p", "1"),
                          <<Slash, Slash, "x.org", Slash, "p", Slash, "9">>>>))
     @@ (Page(d, P1("A")) :> Doc(<<P1("C"), BaseURL(d), P1("A"), P2("product", "2"),
                                   <<Ctl>>>>))
     @@ (Page(d, P1("B")) :> Doc(<<P1("A"), P1("C"), P2("p", "1"),
                                   <<Slash, "s", QMark, "q", Slash, "p", Slash>>>>))
     @@ (Page(d, P1("C")) :> Garbage)

\* b.com: a product link given twice, and B, which links back to the root
\* under another scheme (a URL that is not served), to an opaque URL and to
\* itself by a path with dot segments.
SiteB ==
  LET d == "b.com"
  IN (BaseURL(d) :> Doc(<<P2("item", "7"), P1("B"), P2("item", "7")>>))
     @@ (Page(d, P1("B")) :>
           Doc(<<<<"http:", Slash, Slash, d>>, P2("dp", "X"), <<"mailto:", "me">>,
                 <<"A", Slash, "..", Slash, "item", Slash, "..", Slash, "B">>>>))

SiteC ==
  LET d == "c.com"
  IN (BaseURL(d) :> Doc(<<P2("p", "3")>>))

FixedWeb == SiteA @@ SiteB @@ SiteC

\* The URLs whose fetch may fail in the run of several domains: a page of
\* a.com and the root of every other domain.
DownCandidates ==
  {Page("a.com", P1("B"))} \cup {BaseURL(ConfiguredDomains[i]) : i \in 2..NumDomains}

\* The webs of one domain, any graph.
MaxAnchors == 2

GraphDomain == "g.com"

\* The hrefs the root may hold: the pages A and B, and a product link.  The
\* hrefs A may hold: A, B, and C, which is not served.
RootHrefs == {P1("A"), P1("B"), P2("p", "1")}
AHrefs == {P1("A"), P1("B"), P1("C")}

SeqsUpTo(S, n) == UNION {[1..k -> S] : k \in 0..n}

GraphDocB == Doc(<<BaseURL(GraphDomain), P1("A")>>)

\* The root and A hold any list of at most MaxAnchors hrefs; B is not served,
\* or is not HTML, or links to the root and to A.
GraphWebs ==
  {   (BaseURL(GraphDomain) :> Doc(r))
   @@ (Page(GraphDomain, P1("A")) :> Doc(a))
   @@ b :
     r \in SeqsUpTo(RootHrefs, MaxAnchors),
     a \in SeqsUpTo(AHrefs, MaxAnchors),
     b \in {<< >>,
            Page(GraphDomain, P1("B")) :> Garbage,
            Page(GraphDomain, P1("B")) :> GraphDocB}}

\* The webs of one page, any anchors.
MaxHrefs == 4

PageDomain == "p.com"

\* The hrefs the page may hold: a relative link, a cross-host link, an href
\* that does not parse, a product link, a link whose only marker is in its
\* query, and the same host under another scheme with a marker in the
\* fragment.
PageHrefs ==
  {P1("A"),
   <<Slash, Slash, "x.org", Slash, "A">>,
   <<"%", Ctl>>,
   P2("p", "1"),
   <<Slash, "s", QMark, "next", Slash, "p", Slash>>,
   <<"http:", Slash, Slash, PageDomain, Slash, "B", Hash, Slash, "dp", Slash>>}

PageWebs ==
  {BaseURL(PageDomain) :> Garbage}
    \cup {BaseURL(PageDomain) :> Doc(r) : r \in SeqsUpTo(PageHrefs, MaxHrefs)}

\* ------------------------------------------------------------------ state

VARIABLES
  Domains,      \* Crawler.Domains
  Concurrency,  \* Crawler.Concurrency: the capacity of the semaphore channel
  ProductURLs,  \* Crawler.ProductURLs: a map, domain -> list of links
  mu,           \* Crawler.mu: 0 when unlocked, else the traversal holding it
  semaphore,    \* Crawler.semaphore: the number of values in the channel
  web,          \* the world: URL -> the document served there
  down,         \* the world: the URLs whose fetch fails
  parsed,       \* ParseLinks, tabulated on the documents and base URLs of the run
  mainPc,       \* RunCrawler: "spawn", "wait", "returned"
  nextDomain,   \* RunCrawler: the index of the range loop over c.Domains
  wg,           \* RunCrawler: the WaitGroup's counter
  pc,           \* CrawlDomain, per traversal: the statement it is at
  toVisit,      \* CrawlDomain: toVisit
  visited,      \* CrawlDomain: the keys of visited
  currentURL,   \* CrawlDomain: currentURL
  html,         \* CrawlDomain: html
  links,        \* CrawlDomain: links
  li,           \* CrawlDomain: the index of the range loop over links
  marked,       \* history: the URLs set in visited, in order
  fetched,      \* history: the URLs Fetch was called with, in order
  enqueued,     \* history: the URLs appended to toVisit, in order
  discovered    \* history: the links IsProductURL accepted, in order

config == <<Domains, Concurrency, web, down, parsed>>
shared == <<ProductURLs, mu, semaphore>>
main == <<mainPc, nextDomain, wg>>
locals == <<toVisit, visited, currentURL, html, links, li>>
history == <<marked, fetched, enqueued, discovered>>
vars == <<config, shared, main, pc, locals, history>>

Traversals == 1..Len(Domains)

\* Whether u is a URL of the site whose root is baseURL.
OnSite(u, baseURL) == Len(u) >= Len(baseURL) /\ SubSeq(u, 1, Len(baseURL)) = baseURL

\* Crawler.ParseLinks on every document of the web w against the base URL of
\* the domain that serves it.
ParseLinksTable(w, domains) ==
  [x \in UNION {{<<w[u], BaseURL(domains[i])>> :
                    u \in {v \in DOMAIN w : OnSite(v, BaseURL(domains[i]))}} :
                 i \in 1..Len(domains)}
     |-> ParseLinks(x[1], x[2])]

\* CreateNewCrawler, and every goroutine of RunCrawler not yet started.
InitCrawler(domains, concurrency) ==
  /\ Domains = domains
  /\ Concurrency = concurrency
  /\ ProductURLs = << >>
  /\ mu = 0
  /\ semaphore = 0
  /\ mainPc = "spawn"
  /\ nextDomain = 1
  /\ wg = 0
  /\ pc = [t \in 1..Len(domains) |-> "idle"]
  /\ toVisit = [t \in 1..Len(domains) |-> << >>]
  /\ visited = [t \in 1..Len(domains) |-> {}]
  /\ currentURL = [t \in 1..Len(domains) |-> EmptyStr]
  /\ html = [t \in 1..Len(domains) |-> Garbage]
  /\ links = [t \in 1..Len(domains) |-> << >>]
  /\ li = [t \in 1..Len(domains) |-> 1]
  /\ marked = [t \in 1..Len(domains) |-> << >>]
  /\ fetched = [t \in 1..Len(domains) |-> << >>]
  /\ enqueued = [t \in 1..Len(domains) |-> << >>]
  /\ discovered = [t \in 1..Len(domains) |-> << >>]

\* A run over the configured domains and the fixed web, for every capacity
\* and every choice of the pages that are down.
Init ==
  /\ \E k \in 1..MaxConcurrency : InitCrawler(ConfiguredDomains, k)
  /\ web = FixedWeb
  /\ down \in {s \in SUBSET DownCandidates : Cardinality(s) <= MaxDown}
  /\ parsed = ParseLinksTable(web, Domains)

\* ------------------------------------------------------------------ helpers

\* A channel that never blocks a sender.
CanSendAlways(n, capacity) == TRUE

\* A capacity that is one short.
CanSendBelow(n, capacity) == n < capacity - 1

\* A send on the buffered channel proceeds when the buffer is not full.
CanSend(n, capacity) == n < capacity

\* A send that leaves no value in the channel.
SendNothing(n) == n

\* c.semaphore <- struct{}{}: a value enters the channel.
Send(n) == n + 1

\* The receive left out before the `continue` of the parse error.
ReceiveNotOnParseErr(n, site) == IF site = "releaseParseErr" THEN n ELSE n - 1

\* The receive left out before the `continue` of the visited check.
ReceiveNotOnVisited(n, site) == IF site = "releaseVisited" THEN n ELSE n - 1

\* The receive left out before the `continue` of the fetch error.
ReceiveNotOnFetchErr(n, site) == IF site = "releaseFetchErr" THEN n ELSE n - 1

\* `<-c.semaphore` at one of the four places of CrawlDomain: a value leaves
\* the channel.
Receive(n, site) == n - 1

\* A visited check that never finds the URL.
NeverVisited(v, u) == FALSE

\* visited[currentURL]
IsVisited(v, u) == u \in v

\* The test of visited[link] inverted.
LinkNotVisited(v, link) == link \notin v

\* visited[link]
LinkVisited(v, link) == link \in v

\* The link pushed at the head of the frontier.
EnqueueFront(q, link) == <<link>> \o q

\* toVisit = append(toVisit, link)
Enqueue(q, link) == Append(q, link)

\* Whether client.Get fails or the status is not 200.
FetchFails(w, dn, u) == u \notin DOMAIN w \/ u \in dn

\* Crawler.Fetch: (html, err)
Fetch(w, dn, u) ==
  IF FetchFails(w, dn, u) THEN [html |-> Garbage, err |-> TRUE]
  ELSE [html |-> w[u], err |-> FALSE]

\* The entry of the domain replaced instead of appended to.
RecordOverwrite(m, domain, link) == (domain :> <<link>>) @@ m

\* The link put in front of the entry of the domain.
RecordPrepend(m, domain, link) ==
  IF domain \in DOMAIN m
    THEN [m EXCEPT ![domain] = <<link>> \o @]
    ELSE (domain :> <<link>>) @@ m

\* The link appended only when the entry does not hold it yet.
RecordOnce(m, domain, link) ==
  IF domain \in DOMAIN m
    THEN IF link \in Range(m[domain]) THEN m ELSE [m EXCEPT ![domain] = Append(@, link)]
    ELSE (domain :> <<link>>) @@ m

\* c.ProductURLs[domain] = append(c.ProductURLs[domain], link)
RecordAppend(m, domain, link) ==
  IF domain \in DOMAIN m
    THEN [m EXCEPT ![domain] = Append(@, link)]
    ELSE (domain :> <<link>>) @@ m

\* A mutex that lets everyone in.
CanLockAlways(m) == TRUE

\* c.mu.Lock() proceeds when the mutex is unlocked.
CanLock(m) == m = 0

\* A Wait that does not wait.
WaitNever(n) == TRUE

\* wg.Wait() returns when the counter is zero.
WaitDone(n) == n = 0

ReleaseSites == {"releaseVisited", "releaseFetchErr", "releaseParseErr", "release"}

\* The statements at which a traversal has sent to the semaphore and not yet
\* received from it.
HoldingPcs == {"pop", "fetch", "parse", "range", "lock", "append", "unlock", "sleep"}
                 \cup ReleaseSites

HoldsToken(t) == pc[t] \in HoldingPcs

\* ------------------------------------------------------------------ RunCrawler

\* wg.Add(1); go func(domain) {...}(domain)
Spawn ==
  /\ mainPc = "spawn"
  /\ nextDomain <= Len(Domains)
  /\ wg' = wg + 1
  /\ pc' = [pc EXCEPT ![nextDomain] = "start"]
  /\ nextDomain' = nextDomain + 1
  /\ UNCHANGED <<config, shared, mainPc, locals, history>>

\* The range loop over c.Domains ends.
SpawnEnd ==
  /\ mainPc = "spawn"
  /\ nextDomain > Len(Domains)
  /\ mainPc' = "wait"
  /\ UNCHANGED <<config, shared, nextDomain, wg, pc, locals, history>>

\* wg.Wait(), and RunCrawler returns.
Wait ==
  /\ mainPc = "wait"
  /\ WaitDone(wg)
  /\ mainPc' = "returned"
  /\ UNCHANGED <<config, shared, nextDomain, wg, pc, locals, history>>

\* ------------------------------------------------------------------ CrawlDomain

\* baseURL := "https://" + domain; visited := ...; toVisit := []string{baseURL}
Start(t) ==
  /\ pc[t] = "start"
  /\ toVisit' = [toVisit EXCEPT ![t] = <<BaseURL(Domains[t])>>]
  /\ visited' = [visited EXCEPT ![t] = {}]
  /\ enqueued' = [enqueued EXCEPT ![t] = <<BaseURL(Domains[t])>>]
  /\ pc' = [pc EXCEPT ![t] = "loop"]
  /\ UNCHANGED <<config, shared, main, currentURL, html, links, li,
                 marked, fetched, discovered>>

\* for len(toVisit) > 0
Loop(t) ==
  /\ pc[t] = "loop"
  /\ pc' = [pc EXCEPT ![t] = IF Len(toVisit[t]) > 0 THEN "acquire" ELSE "return"]
  /\ UNCHANGED <<config, shared, main, locals, history>>

\* c.semaphore <- struct{}{}
Acquire(t) ==
  /\ pc[t] = "acquire"
  /\ CanSend(semaphore, Concurrency)
  /\ semaphore' = Send(semaphore)
  /\ pc' = [pc EXCEPT ![t] = "pop"]
  /\ UNCHANGED <<config, ProductURLs, mu, main, locals, history>>

\* currentURL := toVisit[0]; toVisit = toVisit[1:]; the visited check; and
\* visited[currentURL] = true
Pop(t) ==
  /\ pc[t] = "pop"
  /\ currentURL' = [currentURL EXCEPT ![t] = Head(toVisit[t])]
  /\ toVisit' = [toVisit EXCEPT ![t] = Tail(@)]
  /\ IF IsVisited(visited[t], Head(toVisit[t]))
       THEN /\ pc' = [pc EXCEPT ![t] = "releaseVisited"]
            /\ UNCHANGED <<visited, marked>>
       ELSE /\ visited' = [visited EXCEPT ![t] = @ \cup {Head(toVisit[t])}]
            /\ marked' = [marked EXCEPT ![t] = Append(@, Head(toVisit[t]))]
            /\ pc' = [pc EXCEPT ![t] = "fetch"]
  /\ UNCHANGED <<config, shared, main, html, links, li, fetched, enqueued, discovered>>

\* html, err := c.Fetch(currentURL)
DoFetch(t) ==
  /\ pc[t] = "fetch"
  /\ LET r == Fetch(web, down, currentURL[t])
     IN /\ html' = [html EXCEPT ![t] = r.html]
        /\ pc' = [pc EXCEPT ![t] = IF r.err THEN "releaseFetchErr" ELSE "parse"]
  /\ fetched' = [fetched EXCEPT ![t] = Append(@, currentURL[t])]
  /\ UNCHANGED <<config, shared, main, toVisit, visited, currentURL, links, li,
                 marked, enqueued, discovered>>

\* links, err := c.ParseLinks(html, baseURL)
DoParse(t) ==
  /\ pc[t] = "parse"
  /\ LET r == parsed[<<html[t], BaseURL(Domains[t])>>]
     IN /\ links' = [links EXCEPT ![t] = r.links]
        /\ pc' = [pc EXCEPT ![t] = IF r.err THEN "releaseParseErr" ELSE "range"]
  /\ li' = [li EXCEPT ![t] = 1]
  /\ UNCHANGED <<config, shared, main, toVisit, visited, currentURL, html, history>>

\* One turn of `for _, link := range links`, up to c.mu.Lock() for a product
\* link; a link that is no product and not visited is appended to toVisit.
RangeLinks(t) ==
  /\ pc[t] = "range"
  /\ IF li[t] > Len(links[t])
       THEN /\ pc' = [pc EXCEPT ![t] = "sleep"]
            /\ UNCHANGED <<toVisit, li, enqueued, discovered>>
       ELSE LET link == links[t][li[t]]
            IN IF IsProductURL(link)
                 THEN /\ pc' = [pc EXCEPT ![t] = "lock"]
                      /\ discovered' = [discovered EXCEPT ![t] = Append(@, link)]
                      /\ UNCHANGED <<toVisit, li, enqueued>>
                 ELSE /\ IF ~LinkVisited(visited[t], link)
                           THEN /\ toVisit' = [toVisit EXCEPT ![t] = Enqueue(@, link)]
                                /\ enqueued' = [enqueued EXCEPT ![t] = Append(@, link)]
                           ELSE UNCHANGED <<toVisit, enqueued>>
                      /\ li' = [li EXCEPT ![t] = @ + 1]
                      /\ UNCHANGED <<pc, discovered>>
  /\ UNCHANGED <<config, shared, main, visited, currentURL, html, links, marked, fetched>>

\* c.mu.Lock()
Lock(t) ==
  /\ pc[t] = "lock"
  /\ CanLock(mu)
  /\ mu' = t
  /\ pc' = [pc EXCEPT ![t] = "append"]
  /\ UNCHANGED <<config, ProductURLs, semaphore, main, locals, history>>

\* c.ProductURLs[domain] = append(c.ProductURLs[domain], link)
AppendProduct(t) ==
  /\ pc[t] = "append"
  /\ ProductURLs' = RecordAppend(ProductURLs, Domains[t], links[t][li[t]])
  /\ pc' = [pc EXCEPT ![t] = "unlock"]
  /\ UNCHANGED <<config, mu, semaphore, main, locals, history>>

\* c.mu.Unlock(), and the range loop moves to the next link
Unlock(t) ==
  /\ pc[t] = "unlock"
  /\ mu' = 0
  /\ li' = [li EXCEPT ![t] = @ + 1]
  /\ pc' = [pc EXCEPT ![t] = "range"]
  /\ UNCHANGED <<config, ProductURLs, semaphore, main, toVisit, visited, currentURL,
                 html, links, history>>

\* time.Sleep(c.RateLimit)
Sleep(t) ==
  /\ pc[t] = "sleep"
  /\ pc' = [pc EXCEPT ![t] = "release"]
  /\ UNCHANGED <<config, shared, main, locals, history>>

\* <-c.semaphore, then continue (or the end of the loop body)
Release(t) ==
  /\ pc[t] \in ReleaseSites
  /\ semaphore > 0
  /\ semaphore' = Receive(semaphore, pc[t])
  /\ pc' = [pc EXCEPT ![t] = "loop"]
  /\ UNCHANGED <<config, ProductURLs, mu, main, locals, history>>

\* CrawlDomain returns and the deferred wg.Done() runs.
Return(t) ==
  /\ pc[t] = "return"
  /\ wg' = wg - 1
  /\ pc' = [pc EXCEPT ![t] = "done"]
  /\ UNCHANGED <<config, shared, mainPc, nextDomain, locals, history>>

Step(t) ==
  \/ Start(t) \/ Loop(t) \/ Acquire(t) \/ Pop(t) \/ DoFetch(t) \/ DoParse(t)
  \/ RangeLinks(t) \/ Lock(t) \/ AppendProduct(t) \/ Unlock(t) \/ Sleep(t)
  \/ Release(t) \/ Return(t)

Next ==
  \/ Spawn
  \/ SpawnEnd
  \/ Wait
  \/ \E t \in Traversals : Start(t)
  \/ \E t \in Traversals : Loop(t)
  \/ \E t \in Traversals : Acquire(t)
  \/ \E t \in Traversals : Pop(t)
  \/ \E t \in Traversals : DoFetch(t)
  \/ \E t \in Traversals : DoParse(t)
  \/ \E t \in Traversals : RangeLinks(t)
  \/ \E t \in Traversals : Lock(t)
  \/ \E t \in Traversals : AppendProduct(t)
  \/ \E t \in Traversals : Unlock(t)
  \/ \E t \in Traversals : Sleep(t)
  \/ \E t \in Traversals : Release(t)
  \/ \E t \in Traversals : Return(t)

Spec == Init /\ [][Next]_vars

\* The steps of the scheduler are fair to every goroutine that can run.
Fairness ==
  /\ WF_vars(Spawn \/ SpawnEnd \/ Wait)
  /\ \A t \in 1..NumDomains : WF_vars(t \in Traversals /\ Step(t))

FairSpec == Spec /\ Fairness

\* ------------------------------------------------------------------ one domain, any graph

\* A run over one domain, for every web of the family.
GraphInit ==
  /\ InitCrawler(<<GraphDomain>>, 1)
  /\ web \in GraphWebs
  /\ down = {}
  /\ parsed = ParseLinksTable(web, Domains)

GraphSpec == GraphInit /\ [][Next]_vars

FairGraphSpec == GraphSpec /\ Fairness

\* ------------------------------------------------------------------ one page, any anchors

\* A run over one domain whose root is the only page served, for every list
\* of anchors of the family.
PageInit ==
  /\ InitCrawler(<<PageDomain>>, 1)
  /\ web \in PageWebs
  /\ down = {}
  /\ parsed = ParseLinksTable(web, Domains)

PageSpec == PageInit /\ [][Next]_vars

\* ------------------------------------------------------------------ properties

NoDuplicates(s) == \A i, j \in 1..Len(s) : s[i] = s[j] => i = j

Count(s, x) == Cardinality({i \in 1..Len(s) : s[i] = x})

FirstIndex(s, x) == CHOOSE i \in 1..Len(s) : s[i] = x /\ \A j \in 1..(i - 1) : s[j] # x

IsPrefix(s, r) == Len(s) <= Len(r) /\ SubSeq(r, 1, Len(s)) = s

\* ProductURLs[d], empty when the map has no key d.
Results(d) == IF d \in DOMAIN ProductURLs THEN ProductURLs[d] ELSE << >>

TokenHolders == {t \in Traversals : HoldsToken(t)}

\* C1. Admission bound: in every state at most Concurrency traversals have
\* sent to the semaphore and not yet received from it, so at most Concurrency
\* fetches are in flight, whatever the number of domains.
C1_AdmissionBound ==
  /\ Cardinality(TokenHolders) <= Concurrency
  /\ Cardinality({t \in Traversals : pc[t] = "fetch"}) <= Concurrency

\* More domains than tokens: every token is held, a fetch is in flight and
\* another traversal waits to send.
C1_Witness ==
  /\ Len(Domains) > Concurrency
  /\ Cardinality(TokenHolders) = Concurrency
  /\ \E t \in Traversals : pc[t] = "fetch"
  /\ \E t \in Traversals : pc[t] = "acquire"

\* C2. No revisit: within one traversal a URL is set in visited at most once
\* and Fetch is called with it at most once, for every link graph and whether
\* the fetch succeeds or fails.
C2_NoRevisit ==
  \A t \in Traversals : NoDuplicates(marked[t]) /\ NoDuplicates(fetched[t])

\* A URL already fetched came out of the frontier again and was discarded,
\* in a run where a fetch failed and another succeeded.
C2_Witness ==
  \E t \in Traversals :
    /\ pc[t] = "releaseVisited"
    /\ currentURL[t] \in Range(fetched[t])
    /\ \E i \in 1..Len(fetched[t]) : FetchFails(web, down, fetched[t][i])
    /\ \E i \in 1..Len(fetched[t]) : ~FetchFails(web, down, fetched[t][i])

AllDone == \A t \in Traversals : pc[t] = "done" /\ toVisit[t] = << >>

\* C3. Termination: on every finite link graph, cycles and self-links
\* included, a traversal scheduled fairly empties its frontier and is done.
C3_Termination == <>AllDone

\* Whether page u links to page v in the web.
LinksTo(u, v) ==
  u \in DOMAIN web /\ web[u].parses
    /\ \E i \in 1..Len(web[u].anchors) :
         resolveURL(BaseURL(GraphDomain), web[u].anchors[i]) = v

\* A traversal is done on a web with the cycle A -> B -> A and a self-link,
\* having fetched A and B.
C3_Witness ==
  /\ AllDone
  /\ LinksTo(Page(GraphDomain, P1("A")), Page(GraphDomain, P1("B")))
  /\ LinksTo(Page(GraphDomain, P1("B")), Page(GraphDomain, P1("A")))
  /\ LinksTo(Page(GraphDomain, P1("A")), Page(GraphDomain, P1("A")))
  /\ Page(GraphDomain, P1("B")) \in Range(fetched[1])

\* C4. BFS ordering: URLs are fetched in the order in which they were first
\* appended to the frontier; with the root linking to A and B and A linking
\* to C, the order of the fetches is root, A, B, C.
C4_BFSOrdering ==
  \A t \in Traversals :
    /\ \A i, j \in 1..Len(fetched[t]) :
         i < j => FirstIndex(enqueued[t], fetched[t][i])
                    < FirstIndex(enqueued[t], fetched[t][j])
    /\ (/\ pc[t] = "done"
        /\ web[BaseURL(GraphDomain)] = Doc(<<P1("A"), P1("B")>>)
        /\ web[Page(GraphDomain, P1("A"))] = Doc(<<P1("C")>>))
       => fetched[t] = <<BaseURL(GraphDomain), Page(GraphDomain, P1("A")),
                         Page(GraphDomain, P1("B")), Page(GraphDomain, P1("C"))>>

\* The run of the example is done: root -> [A, B], A -> [C].
C4_Witness ==
  /\ pc[1] = "done"
  /\ web[BaseURL(GraphDomain)] = Doc(<<P1("A"), P1("B")>>)
  /\ web[Page(GraphDomain, P1("A"))] = Doc(<<P1("C")>>)
  /\ Len(fetched[1]) = 4

\* C5. Aggregation isolation: with distinct domains crawled concurrently,
\* ProductURLs[d] holds only links that d's own traversal discovered, none
\* that another traversal discovered, and once d's traversal is done every
\* link it discovered, as many times as it discovered it.
C5_AggregationIsolation ==
  /\ DOMAIN ProductURLs \subseteq Range(Domains)
  /\ \A t \in Traversals :
       /\ \A x \in Range(Results(Domains[t])) :
            /\ Count(Results(Domains[t]), x) <= Count(discovered[t], x)
            /\ \A o \in Traversals \ {t} : x \notin Range(discovered[o])
       /\ pc[t] = "done" =>
            \A x \in Range(discovered[t]) :
              Count(Results(Domains[t]), x) = Count(discovered[t], x)

\* Two traversals that both have recorded links meet at the mutex: one is
\* inside, the other waits.
C5_Witness ==
  \E t, o \in Traversals :
    /\ pc[t] = "append" /\ pc[o] = "lock"
    /\ Results(Domains[t]) # << >> /\ Results(Domains[o]) # << >>

RootDown(t) == BaseURL(Domains[t]) \in down

OtherRoots(t) == {BaseURL(Domains[o]) : o \in Traversals \ {t}}

\* The product links of a crawl of one domain run alone, page after page,
\* with the pages of dn down.
RECURSIVE Alone(_, _, _, _, _)
Alone(baseURL, dn, frontier, seen, acc) ==
  IF frontier = << >> THEN acc
  ELSE IF Head(frontier) \in seen
    THEN Alone(baseURL, dn, Tail(frontier), seen, acc)
  ELSE IF Head(frontier) \notin DOMAIN web \/ Head(frontier) \in dn
            \/ ~web[Head(frontier)].parses
    THEN Alone(baseURL, dn, Tail(frontier), seen \cup {Head(frontier)}, acc)
  ELSE LET ls == ParseLinks(web[Head(frontier)], baseURL).links
           now == seen \cup {Head(frontier)}
       IN Alone(baseURL, dn,
                Tail(frontier) \o SelectSeq(ls, LAMBDA l : ~IsProductURL(l) /\ l \notin now),
                now,
                acc \o SelectSeq(ls, IsProductURL))

\* C6. Resilience to fetch failure: a domain whose root fetch fails is done
\* after that one fetch with no entry in ProductURLs; when RunCrawler has
\* returned every domain has the results of a crawl of it alone in which no
\* other domain's root is down; and RunCrawler does return.
C6_Resilience ==
  /\ [](\A t \in Traversals :
          (RootDown(t) /\ pc[t] = "done") =>
            /\ Domains[t] \notin DOMAIN ProductURLs
            /\ fetched[t] = <<BaseURL(Domains[t])>>)
  /\ [](mainPc = "returned" =>
          \A t \in Traversals :
            Results(Domains[t])
              = Alone(BaseURL(Domains[t]), down \ OtherRoots(t),
                      <<BaseURL(Domains[t])>>, {}, << >>))
  /\ <>(mainPc = "returned")

\* RunCrawler has returned from a run in which the root of one domain was
\* down and another domain has results.
C6_Witness ==
  /\ mainPc = "returned"
  /\ \E t, o \in Traversals : RootDown(t) /\ Results(Domains[o]) # << >>

\* C7. Orchestrator join: every entry of Domains has its traversal started,
\* once, before RunCrawler waits; RunCrawler returns only when every
\* traversal is done; and ProductURLs does not change after it has returned.
C7_OrchestratorJoin ==
  /\ [](mainPc # "spawn" => \A t \in Traversals : pc[t] # "idle")
  /\ [](mainPc = "returned" => wg = 0 /\ \A t \in Traversals : pc[t] = "done")
  /\ [][\A t \in Traversals : (pc'[t] = "start" /\ pc[t] # "start") => pc[t] = "idle"]_vars
  /\ [][mainPc = "returned" => ProductURLs' = ProductURLs]_vars

\* RunCrawler has returned and the map holds results of two domains.
C7_Witness ==
  /\ mainPc = "returned"
  /\ Cardinality(DOMAIN ProductURLs) >= 2

\* The product links of page u as the traversal t extracts them.
PageProducts(t, u) ==
  IF FetchFails(web, down, u) \/ ~web[u].parses THEN << >>
  ELSE SelectSeq(parsed[<<web[u], BaseURL(Domains[t])>>].links, IsProductURL)

RECURSIVE Flatten(_, _)
Flatten(t, urls) ==
  IF urls = << >> THEN << >>
  ELSE PageProducts(t, Head(urls)) \o Flatten(t, Tail(urls))

\* C8. Per-domain discovery order: ProductURLs[d] is, in order, the product
\* links of the pages d's traversal fetched, page after page in the order of
\* the fetches and within a page in the order of the extracted links; it is
\* a prefix of that list while a page is being processed and the whole list
\* otherwise.
C8_DiscoveryOrder ==
  \A t \in Traversals :
    IF pc[t] \in {"parse", "range", "lock", "append", "unlock"}
      THEN IsPrefix(Results(Domains[t]), Flatten(t, fetched[t]))
      ELSE Results(Domains[t]) = Flatten(t, fetched[t])

\* A domain has recorded links of two of its pages while another domain has
\* recorded links too.
C8_Witness ==
  \E t, o \in Traversals :
    /\ t # o
    /\ Results(Domains[o]) # << >>
    /\ Len(fetched[t]) >= 2
    /\ Len(Results(Domains[t])) > Len(PageProducts(t, fetched[t][1]))
    /\ PageProducts(t, fetched[t][1]) # << >>

\* The markers looked for in the path component of the URL only.
PathHasMarker(link) == ParseURL(link).ok /\ RegexMatch(ParseURL(link).Path)

\* C9. Classification by path: a link is classified as a product page if
\* and only if its path contains one of the markers; a link whose marker is
\* only in the query or in the fragment is never recorded in ProductURLs and
\* is put on the frontier when it has not been visited.
C9_ClassificationByPath ==
  \A t \in Traversals :
    /\ \A x \in Range(links[t]) : IsProductURL(x) <=> PathHasMarker(x)
    /\ \A x \in Range(discovered[t]) \cup Range(Results(Domains[t])) : PathHasMarker(x)
    /\ pc[t] = "sleep" =>
         \A x \in Range(links[t]) :
           (~PathHasMarker(x) /\ ~IsVisited(visited[t], x)) => x \in Range(toVisit[t])

\* The resolved href of the i-th anchor of the document.
Resolved(t, i) == resolveURL(BaseURL(Domains[t]), html[t].anchors[i])

\* The anchors whose href parses and resolves to a URL of the host of the
\* base URL.
SameHostAnchors(t) ==
  {i \in 1..Len(html[t].anchors) :
     /\ ParseURL(html[t].anchors[i]).ok
     /\ ParseURL(Resolved(t, i)).ok
     /\ ParseURL(Resolved(t, i)).Host = ParseURL(BaseURL(Domains[t])).Host}

\* C10. Same-domain filtering: the links ParseLinks has just returned for a
\* document are the resolved hrefs of the anchors whose host is the host of
\* the base URL, one per such anchor, in document order, duplicates kept;
\* the href of any other anchor, and of an anchor that does not resolve, is
\* not returned.
C10_SameDomainFiltering ==
  \A t \in Traversals :
    (pc[t] = "range" /\ li[t] = 1) =>
      /\ Len(links[t]) = Cardinality(SameHostAnchors(t))
      /\ \A i \in SameHostAnchors(t) :
           links[t][Cardinality({k \in SameHostAnchors(t) : k <= i})] = Resolved(t, i)
      /\ EmptyStr \notin Range(links[t])

\* ParseLinks has returned for a document with a cross-host anchor, an anchor
\* that does not resolve and the same same-host link twice.
C10_Witness ==
  \E t \in Traversals :
    /\ pc[t] = "range"
    /\ \E i \in 1..Len(html[t].anchors) :
         ParseURL(html[t].anchors[i]).ok /\ i \notin SameHostAnchors(t)
    /\ \E i \in 1..Len(html[t].anchors) : ~ParseURL(html[t].anchors[i]).ok
    /\ Len(links[t]) >= 2
    /\ ~NoDuplicates(links[t])

\* The traversals other than t that have sent to the semaphore and not yet
\* received.
OtherHolders(t) == {o \in Traversals \ {t} : HoldsToken(o)}

\* C11. Visited discard consumes no token: a traversal whose frontier head is
\* already visited is never blocked at the send to the semaphore, and when it
\* discards a visited URL the channel holds only the tokens of the other
\* traversals.
C11_DiscardTakesNoToken ==
  \A t \in Traversals :
    /\ (/\ toVisit[t] # << >>
        /\ IsVisited(visited[t], Head(toVisit[t]))
        /\ pc[t] = "acquire")
         => CanSend(semaphore, Concurrency)
    /\ pc[t] = "releaseVisited" => semaphore = Cardinality(OtherHolders(t))

\* C12. Product URLs are never enqueued: no URL that matches the product
\* pattern is in toVisit, was ever appended to it, or was fetched; a link
\* that matches is recorded in ProductURLs instead.
C12_ProductNeverEnqueued ==
  \A t \in Traversals :
    /\ \A x \in Range(toVisit[t]) \cup Range(enqueued[t]) \cup Range(fetched[t])
                 \cup visited[t] :
         ~RegexMatch(x)
    /\ \A x \in Range(Results(Domains[t])) : RegexMatch(x)

\* A traversal is done that found product links on two pages: none of them
\* was fetched, all are recorded.
C12_Witness ==
  \E t \in Traversals :
    /\ pc[t] = "done"
    /\ Len(fetched[t]) >= 3
    /\ Len(Results(Domains[t])) >= 3
    /\ Range(Results(Domains[t])) \cap Range(fetched[t]) = {}

\* The statements from the call of Fetch to the end of the politeness delay.
ProcessingPcs == {"fetch", "parse", "range", "lock", "append", "unlock", "sleep"}

\* C13. Token hold spans the page's processing: the channel holds a token for
\* every traversal between its call of Fetch and the end of its delay, no
\* step of a traversal in between takes a value out of the channel, and the
\* receive after a page that was parsed comes after the last link of the
\* page and after the delay.
C13_TokenSpansProcessing ==
  /\ [](Cardinality({t \in Traversals : pc[t] \in ProcessingPcs}) <= semaphore)
  /\ [][\A t \in Traversals :
          /\ (pc[t] \in ProcessingPcs /\ pc'[t] # pc[t]) => semaphore' = semaphore
          /\ (pc'[t] = "release" /\ pc[t] # "release") =>
               (pc[t] = "sleep" /\ li[t] > Len(links[t]))
          /\ (pc[t] = "release" /\ pc'[t] # "release") =>
               (semaphore' = semaphore - 1 /\ li[t] > Len(links[t]))]_vars

\* Two traversals are between Fetch and the end of the delay, one of them at
\* the delay after a page with links.
C13_Witness ==
  \E t, o \in Traversals :
    /\ t # o
    /\ pc[t] = "sleep" /\ Len(links[t]) >= 2
    /\ pc[o] \in ProcessingPcs

\* Whether the page at u is served and cannot be read by ParseLinks.
ParseFails(u) == ~FetchFails(web, down, u) /\ ~web[u].parses

\* C14. Fetch failure is local and not retried: the step at which Fetch or
\* ParseLinks fails, and the receive that follows it, change neither the
\* frontier of the traversal nor ProductURLs; the receive takes one value out
\* of the channel and the traversal goes back to the head of its loop; the
\* URL stays in visited and is never fetched again.
C14_FailureIsLocal ==
  /\ [](\A t \in Traversals :
          /\ pc[t] \in {"releaseFetchErr", "releaseParseErr"} =>
               IsVisited(visited[t], currentURL[t])
          /\ \A i \in 1..Len(fetched[t]) :
               (FetchFails(web, down, fetched[t][i]) \/ ParseFails(fetched[t][i])) =>
                 /\ Count(fetched[t], fetched[t][i]) = 1
                 /\ IsVisited(visited[t], fetched[t][i]))
  /\ [][\A t \in Traversals :
          /\ (pc'[t] \in {"releaseFetchErr", "releaseParseErr"} /\ pc'[t] # pc[t]) =>
               /\ toVisit'[t] = toVisit[t]
               /\ ProductURLs' = ProductURLs
               /\ visited'[t] = visited[t]
          /\ (pc[t] \in {"releaseFetchErr", "releaseParseErr"} /\ pc'[t] # pc[t]) =>
               /\ pc'[t] = "loop"
               /\ semaphore' = semaphore - 1
               /\ toVisit'[t] = toVisit[t]
               /\ ProductURLs' = ProductURLs
               /\ visited'[t] = visited[t]]_vars

\* A traversal went on after a fetch that failed: it fetched a later page,
\* which ParseLinks could not read, and went on again.
C14_Witness ==
  \E t \in Traversals :
    /\ pc[t] = "loop"
    /\ \E i, j \in 1..Len(fetched[t]) :
         /\ i < j
         /\ FetchFails(web, down, fetched[t][i])
         /\ ParseFails(fetched[t][j])

\* C15. Append-only results: at every step, every key of ProductURLs is
\* still a key afterwards and its list before the step is a prefix of its
\* list after the step.
C15_AppendOnly ==
  [][\A d \in DOMAIN ProductURLs :
       /\ d \in DOMAIN ProductURLs'
       /\ IsPrefix(ProductURLs[d], ProductURLs'[d])]_vars

\* A list that already holds two links is about to be appended to, and the
\* map has another key.
C15_Witness ==
  \E t \in Traversals :
    /\ pc[t] = "append"
    /\ Len(Results(Domains[t])) >= 2
    /\ Cardinality(DOMAIN ProductURLs) >= 2

\* The traversals between c.mu.Lock() and c.mu.Unlock().
InCriticalSection == {t \in Traversals : pc[t] \in {"append", "unlock"}}

\* C16. Mutual exclusion on the result map: at most one traversal is between
\* c.mu.Lock() and c.mu.Unlock(), the mutex is held by it, and ProductURLs
\* changes only in a step of the traversal that holds the mutex.
C16_MutualExclusion ==
  /\ [](/\ Cardinality(InCriticalSection) <= 1
        /\ \A t \in InCriticalSection : mu = t
        /\ (InCriticalSection = {} => mu = 0))
  /\ [][ProductURLs' # ProductURLs =>
          \E t \in Traversals : mu = t /\ pc[t] = "append" /\ pc'[t] = "unlock"]_vars

\* A traversal is in the critical section while two others wait at
\* c.mu.Lock(), or one waits (with two domains).
C16_Witness ==
  \E t \in Traversals :
    /\ pc[t] = "append"
    /\ \A o \in Traversals \ {t} : pc[o] = "lock"
    /\ Cardinality(Traversals) >= 2

\* C17. Bounded admission wait and no deadlock: a traversal at the send to
\* the semaphore holds neither the mutex nor a token; whenever a traversal
\* has started and is not done, some traversal can take a step; and, the
\* scheduler being fair, every traversal at the send gets past it, also
\* with more domains than tokens.
C17_AdmissionWaitEnds ==
  /\ [](\A t \in Traversals :
          pc[t] = "acquire" => (mu # t /\ semaphore = Cardinality(OtherHolders(t))))
  /\ []((\E t \in Traversals : pc[t] \notin {"idle", "done"})
          => \E t \in Traversals : ENABLED Step(t))
  /\ \A t \in 1..NumDomains :
       (t \in Traversals /\ pc[t] = "acquire") ~> (pc[t] = "pop")

\* With one token and two domains, a traversal is blocked at the send while
\* another holds the token and the mutex.
C17_Witness ==
  \E t, o \in Traversals :
    /\ pc[t] = "acquire"
    /\ ~CanSend(semaphore, Concurrency)
    /\ Cardinality(Traversals) > Concurrency
    /\ mu = o

\* C18. Token conservation: the number of values in the channel is the
\* number of traversals between their send and their receive, one each and
\* never more than the capacity; each of the four receives takes exactly one
\* value out; and the channel is empty when RunCrawler has returned.
C18_TokenConservation ==
  /\ [](/\ semaphore = Cardinality({t \in Traversals : HoldsToken(t)})
        /\ semaphore <= Concurrency
        /\ (mainPc = "returned" => semaphore = 0)
        /\ \A t \in Traversals : pc[t] \in {"return", "done"} =>
             semaphore = Cardinality(OtherHolders(t)))
  /\ [][\A t \in Traversals :
          /\ (pc[t] \in ReleaseSites /\ pc'[t] # pc[t]) => semaphore' = semaphore - 1
          /\ (pc[t] = "acquire" /\ pc'[t] # pc[t]) => semaphore' = semaphore + 1]_vars

\* Two tokens are out: one with a traversal that discards a visited URL,
\* the other with a traversal whose fetch failed.
C18_Witness ==
  \E t, o \in Traversals :
    /\ pc[t] = "releaseVisited"
    /\ pc[o] = "releaseFetchErr"
    /\ semaphore = 2

\* The links ParseLinks extracts from the page at u for traversal t; none
\* when the fetch of u fails or the page cannot be read.
PageLinks(t, u) ==
  IF FetchFails(web, down, u) \/ ~web[u].parses THEN << >>
  ELSE parsed[<<web[u], BaseURL(Domains[t])>>].links

\* The links of the page at u that are no product links.
Followed(t, u) == {l \in Range(PageLinks(t, u)) : ~IsProductURL(l)}

\* The URLs reachable from those of R by links that are followed.
RECURSIVE ReachFrom(_, _)
ReachFrom(t, R) ==
  IF UNION {Followed(t, u) : u \in R} \subseteq R THEN R
  ELSE ReachFrom(t, R \cup UNION {Followed(t, u) : u \in R})

Reachable(t) == ReachFrom(t, {BaseURL(Domains[t])})

\* C19. Crawl completeness: when a traversal is done, its visited set is the
\* set of the URLs reachable from its root by the same-host links, product
\* links left out, of the pages whose fetch succeeded; every one of them was
\* fetched once and nothing else was fetched.
C19_CrawlCompleteness ==
  \A t \in Traversals :
    pc[t] = "done" =>
      /\ visited[t] = Reachable(t)
      /\ Range(fetched[t]) = Reachable(t)
      /\ NoDuplicates(fetched[t])

\* A traversal is done on a web where four URLs are reachable, one of them
\* not served, with a link back to a page already visited.
C19_Witness ==
  \E t \in Traversals :
    /\ pc[t] = "done"
    /\ Cardinality(Reachable(t)) = 4
    /\ \E u \in Reachable(t) : FetchFails(web, down, u)
    /\ \E u \in Reachable(t) : BaseURL(Domains[t]) \in Followed(t, u)

\* The places, page and position, at which p is among the links extracted
\* from the pages the traversal fetched.
Occurrences(t, p) ==
  UNION {{<<j, i>> : i \in {k \in 1..Len(PageLinks(t, fetched[t][j])) :
                              PageLinks(t, fetched[t][j])[k] = p}} :
         j \in 1..Len(fetched[t])}

\* The product links among the links extracted from the fetched pages.
ProductLinksSeen(t) ==
  {l \in UNION {Range(PageLinks(t, fetched[t][j])) : j \in 1..Len(fetched[t])} :
     IsProductURL(l)}

\* C20. No deduplication of results: when a traversal is done, a product
\* link is in ProductURLs[domain] as many times as it is among the links
\* extracted from the pages fetched, and nothing else is in it.
C20_NoDeduplication ==
  \A t \in Traversals :
    pc[t] = "done" =>
      \A p \in ProductLinksSeen(t) \cup Range(Results(Domains[t])) :
        Count(Results(Domains[t]), p) = Cardinality(Occurrences(t, p))

\* Every traversal is done and has recorded some link twice: one from two
\* anchors of a page, one from two pages.
C20_Witness ==
  /\ \A t \in Traversals :
       /\ pc[t] = "done"
       /\ \E p \in Range(Results(Domains[t])) : Count(Results(Domains[t]), p) >= 2
  /\ \E t \in Traversals : \E p \in Range(Results(Domains[t])) :
       \E a, b \in Occurrences(t, p) : a[1] # b[1]
  /\ \E t \in Traversals : \E p \in Range(Results(Domains[t])) :
       \E a, b \in Occurrences(t, p) : a[1] = b[1] /\ a[2] # b[2]

====
